---- MODULE Spec2Model ----
(***************************************************************************)
(* rustyroad (src/src/main.rs): fetch a story's landing page, build an     *)
(* e-book in an EpubBuilder, fetch the chapters through                    *)
(* stream::iter(..).map(..).buffered(args.concurrent).try_for_each(..),    *)
(* and write the result to args.out.                                       *)
(*                                                                         *)
(* The run is one state machine.  The world's answers (the landing page,   *)
(* the cover response, each chapter response, the file system) are the     *)
(* inputs of the steps that consume them.  Chapter indices are 0-based as  *)
(* in enumerate(); story.chapters is a TLA+ sequence, so chapter i is      *)
(* story.chapters[i + 1].                                                  *)
(***************************************************************************)
EXTENDS Integers, Sequences, FiniteSets, TLC

\* ------------------------------------------------------------------ bounds
\* Largest number of chapter anchors on a landing page.
MaxChapters == 4
\* Largest --concurrent value tried (0 .. MaxConcurrent).
MaxConcurrent == 2

\* ------------------------------------------------------------- small helpers
Min(a, b) == IF a < b THEN a ELSE b

RECURSIVE SumSeq(_)
SumSeq(s) == IF s = <<>> THEN 0 ELSE Head(s) + SumSeq(Tail(s))

RECURSIVE Flatten(_)
\* The cells of all rows, in document order.
Flatten(rows) == IF rows = <<>> THEN <<>> ELSE Head(rows) \o Flatten(Tail(rows))

\* ------------------------------------------------------------ the web pages
\* HTTP statuses of a response that arrived: a success and a non-success one.
Statuses == {200, 404}
\* StatusCode::is_success.  The program never asks for it.
IsSuccess(status) == status \in 200..299

\* The four meta fields, in the order fetch_story reads them.
FieldOrder == <<"cover image", "author", "title", "description">>
Fields == {FieldOrder[k] : k \in 1..Len(FieldOrder)}
\* A meta field: the node is missing, the node has no content attribute, or
\* the attribute is there.
MetaStates == {"nonode", "noattr", "present"}

\* A URL is kept as what Url::parse and path().split(".") make of it:
\* whether it parses, and the dot-separated pieces of its path.
CoverUrls ==
    { [parses |-> TRUE,  pieces |-> <<"cover", "jpg">>],
      [parses |-> TRUE,  pieces |-> <<"cover", "jpeg">>],
      [parses |-> TRUE,  pieces |-> <<"cover", "png">>],
      [parses |-> TRUE,  pieces |-> <<"cover", "gif">>],
      [parses |-> TRUE,  pieces |-> <<"cover", "png", "gif">>],
      [parses |-> TRUE,  pieces |-> <<"cover">>],
      [parses |-> FALSE, pieces |-> <<"cover", "jpg">>] }
JpgCover == [parses |-> TRUE, pieces |-> <<"cover", "jpg">>]

\* A text is a sequence of characters (strings); " " is whitespace.
IsSpace(ch) == ch = " "
\* The anchor in cell c of row r.  href and text are options (<<>> is None):
\* the href attribute, and the first text node, which is the chapter name
\* surrounded by whitespace.
LinkOf(r, c) == 10 * r + c
\* kind: "good", "nohref" (no href attribute), "notext" (no text node).
AnchorOf(r, c, kind) ==
    [href |-> IF kind = "nohref" THEN <<>> ELSE <<LinkOf(r, c)>>,
     text |-> IF kind = "notext" THEN <<>>
                                ELSE << <<" ", ToString(LinkOf(r, c)), " ">> >>]

\* How many anchor cells a table row has: its name cell, or a second
\* anchor as well.
RowSizes == {1, 2}
\* The row sizes of the chapter tables: any number of rows, MaxChapters
\* anchors at most in all.
Shapes ==
    UNION { { s \in [1..k -> RowSizes] : SumSeq(s) <= MaxChapters }
            : k \in 0..MaxChapters }

\* The table of shape s whose anchors are good except the one at (br, bc),
\* which is of kind bk.
TableOf(s, br, bc, bk) ==
    [r \in 1..Len(s) |->
        [c \in 1..s[r] |-> AnchorOf(r, c, IF r = br /\ c = bc THEN bk ELSE "good")]]

AllPresent == [f \in Fields |-> "present"]
OneRow == TableOf(<<1>>, 0, 0, "good")
\* The plain page: every field present, a jpg cover, one chapter.
PlainPage == [meta |-> AllPresent, cover |-> JpgCover, table |-> TRUE, rows |-> OneRow]

\* The landing pages tried.  One aspect varies at a time: the meta fields,
\* the cover URL, or the chapter table.
MetaPages ==
    { [meta |-> m, cover |-> JpgCover, table |-> t, rows |-> OneRow]
        : m \in [Fields -> MetaStates], t \in BOOLEAN }
CoverPages ==
    { [meta |-> AllPresent, cover |-> u, table |-> TRUE, rows |-> OneRow]
        : u \in CoverUrls }
TablePages ==
    UNION { { [meta |-> AllPresent, cover |-> JpgCover, table |-> TRUE,
               rows |-> TableOf(s, br, bc, bk)]
                : br \in 0..Len(s), bc \in RowSizes, bk \in {"nohref", "notext"} }
            : s \in Shapes }
Pages == MetaPages \cup CoverPages \cup TablePages

\* A response to reqwest::get: a transport failure, or a status and a body.
LandingResponses ==
    { [transport |-> FALSE, status |-> 200, body |-> p] : p \in Pages }
    \cup { [transport |-> FALSE, status |-> 404, body |-> p]
             : p \in MetaPages \cup CoverPages }
    \cup { [transport |-> TRUE, status |-> 200, body |-> PlainPage] }

\* The response to the cover request: a transport failure, or a status and
\* the bytes of that response.
CoverResponses ==
    { [transport |-> FALSE, status |-> st] : st \in Statuses }
    \cup { [transport |-> TRUE, status |-> 200] }

\* The response to a chapter request: a transport failure, or a status and a
\* body that holds a div.chapter-content node or does not.
ChapterResponses ==
    { [transport |-> FALSE, status |-> st, content |-> c] : st \in Statuses, c \in BOOLEAN }
    \cup { [transport |-> TRUE, status |-> 200, content |-> FALSE] }

\* The targets of reqwest::get.
LandingUrl == [what |-> "landing", id |-> 0]
CoverUrl == [what |-> "cover", id |-> 0]
ChapterUrl(link) == [what |-> "chapter", id |-> link]

\* ------------------------------------------------------------------ results
\* Result<T>: Ok(v), Err(e), or the panic of an unwrap() on None.
Ok(v) == [tag |-> "Ok", val |-> <<v>>, err |-> <<>>]
Err(e) == [tag |-> "Err", val |-> <<>>, err |-> <<e>>]
Panic == [tag |-> "Panic", val |-> <<>>, err |-> <<>>]

\* The errors.  kind names the class of the Rust error value; field is what
\* an eyre! message says could not be found; url is the URL a reqwest::Error
\* carries (<<>> when the error carries none).
NetworkError(url) == [kind |-> "NetworkError", field |-> "", url |-> <<url>>]
ExtractionError(field) == [kind |-> "ExtractionError", field |-> field, url |-> <<>>]
UnsupportedFormatError == [kind |-> "UnsupportedFormatError", field |-> "", url |-> <<>>]
UrlParseError == [kind |-> "UrlParseError", field |-> "", url |-> <<>>]
IoError == [kind |-> "IoError", field |-> "", url |-> <<>>]

\* ------------------------------------------------------------- fetch_story
RECURSIVE TrimStart(_)
TrimStart(t) == IF t # <<>> /\ IsSpace(Head(t)) THEN TrimStart(Tail(t)) ELSE t
RECURSIVE TrimEnd(_)
TrimEnd(t) ==
    IF t # <<>> /\ IsSpace(t[Len(t)]) THEN TrimEnd(SubSeq(t, 1, Len(t) - 1)) ELSE t
\* str::trim
Trim(t) == TrimEnd(TrimStart(t))

\* The Chapter pushed for one anchor; the caller has checked both unwraps.
ChapterOf(anchor) == [name |-> Trim(anchor.text[1]), link |-> anchor.href[1]]

\* The body of fetch_story after the request: what it returns for a response.
\* The status of the response is never looked at.
fetch_story(resp) ==
    IF resp.transport THEN Err(NetworkError(LandingUrl))
    ELSE
      LET doc == resp.body
          absent == { k \in 1..Len(FieldOrder) : doc.meta[FieldOrder[k]] # "present" }
          first == CHOOSE k \in absent : \A j \in absent : k <= j
          anchors == Flatten(doc.rows)
      IN  IF absent # {}
            THEN IF doc.meta[FieldOrder[first]] = "nonode"
                   THEN Panic
                   ELSE Err(ExtractionError(FieldOrder[first]))
          ELSE IF ~doc.table THEN Err(ExtractionError("chapters"))
          ELSE IF \E k \in 1..Len(anchors) :
                     anchors[k].href = <<>> \/ anchors[k].text = <<>>
            THEN Panic
          ELSE Ok([title |-> "title", author |-> "author",
                   description |-> "description", cover |-> doc.cover,
                   chapters |-> [k \in 1..Len(anchors) |-> ChapterOf(anchors[k])]])

\* ----------------------------------------------------- fetch_and_add_cover
\* The extension: url.path().split(".").last()
Ext(url) == url.pieces[Len(url.pieces)]
\* The match with an arm for gif as well.
MimeWithGif(ext) ==
    IF ext \in {"jpg", "jpeg"} THEN "image/jpeg"
    ELSE IF ext = "png" THEN "image/png"
    ELSE IF ext = "gif" THEN "image/gif"
    ELSE ""

\* The match on the extension; "" where the match arm returns the error.
Mime(ext) ==
    IF ext \in {"jpg", "jpeg"} THEN "image/jpeg"
    ELSE IF ext = "png" THEN "image/png"
    ELSE ""

\* The builder after add_cover_image and add_content of the cover page.
\* data is the body of the response, whatever its status.
WithCover(b, ext, resp) ==
    [b EXCEPT !.cover_image = <<[file |-> <<"cover", ext>>, mime |-> Mime(ext),
                                 data |-> [of |-> CoverUrl, status |-> resp.status]]>>,
              !.content = Append(@, [file |-> "cover.xhtml", nr |-> <<>>,
                                     title |-> <<"Cover">>, reftype |-> "Cover",
                                     img |-> <<"cover", ext>>])]

\* fetch_and_add_cover up to the request: Ok(ext) when the request is issued.
cover_format(url) ==
    IF ~url.parses THEN Err(UrlParseError)
    ELSE IF Mime(Ext(url)) = "" THEN Err(UnsupportedFormatError)
    ELSE Ok(Ext(url))

\* fetch_and_add_cover from the response on: the builder it leaves.
\* The status of the response is never looked at.
fetch_and_add_cover(b, url, resp) ==
    IF resp.transport THEN Err(NetworkError(CoverUrl))
    ELSE Ok(WithCover(b, Ext(url), resp))

\* ------------------------------------------------------------------- state
VARIABLES
    pc,          \* where main is: "fetch_story", "fetch_cover", "chapters",
                 \* "create", "generate", "done", "failed", "panicked"
    concurrent,  \* args.concurrent
    landing,     \* the response to the landing request (<<>> before it)
    story,       \* <<story>> once fetch_story returned Ok
    builder,     \* the EpubBuilder (<<>> before EpubBuilder::new)
    fetched,     \* the requests issued so far, in order
    error,       \* <<e>> once main returned Err(e)
    out,         \* the file at args.out: "absent", "empty", "partial", "complete"
    \* The chapter stream, stream::iter(..).map(..).buffered(..).try_for_each(..):
    next_in,     \* how many chapters buffered() has taken from the iterator
    unit,        \* per chapter index, where its future is: "queued" (still in
                 \* the iterator), "pushed" (in the in-progress queue, not yet
                 \* polled), "running" (request issued), "output" (finished,
                 \* its output waits in the queue), "delivered" (handed to
                 \* try_for_each's closure), "dropped" (dropped with the stream)
    response,    \* per chapter index, the response that arrived (<<>> if none)
    next_outgoing_index,  \* the index the ordered queue yields next
    woken,       \* main's task is scheduled to be polled
    delivered,   \* the (i, chapter, content) triples passed to add_chapter
    completed    \* the chapter indices in the order their responses arrived

vars == <<pc, concurrent, landing, story, builder, fetched, error, out,
          next_in, unit, response, next_outgoing_index, woken, delivered,
          completed>>
stream_vars == <<next_in, unit, response, next_outgoing_index, woken, delivered,
                 completed>>

\* EpubBuilder::new, then the setters and the stylesheet of main.
NewBuilder(s) ==
    [title |-> s.title, author |-> s.author, description |-> s.description,
     stylesheet |-> TRUE, cover_image |-> <<>>, content |-> <<>>, inline_toc |-> FALSE]

Init ==
    /\ pc = "fetch_story"
    /\ concurrent \in 0..MaxConcurrent
    /\ landing = <<>>
    /\ story = <<>>
    /\ builder = <<>>
    /\ fetched = <<>>
    /\ error = <<>>
    /\ out = "absent"
    /\ next_in = 0
    /\ unit = <<>>
    /\ response = <<>>
    /\ next_outgoing_index = 0
    /\ woken = FALSE
    /\ delivered = <<>>
    /\ completed = <<>>

\* story.chapters, by 0-based index.
NumChapters == IF story = <<>> THEN 0 ELSE Len(story[1].chapters)
ChapterIndices == 0..(NumChapters - 1)
Chapter(i) == story[1].chapters[i + 1]
\* The requests of the futures in state "pushed", in index order.
RECURSIVE LinksFrom(_, _)
LinksFrom(u, i) ==
    IF i >= NumChapters THEN <<>>
    ELSE (IF u[i] = "pushed" THEN <<ChapterUrl(Chapter(i).link)>> ELSE <<>>)
         \o LinksFrom(u, i + 1)
\* Every request issued a second time after the first.
PushedLinksRetried(u) == LinksFrom(u, 0) \o LinksFrom(u, 0)

PushedLinks(u) == LinksFrom(u, 0)

\* main returns Err(e) through a `?`.
Fail(e) ==
    /\ pc' = "failed"
    /\ error' = <<e>>

\* let story = fetch_story(args.url).await?; and the builder set-up.
FetchStory ==
    /\ pc = "fetch_story"
    /\ \E resp \in LandingResponses :
         LET r == fetch_story(resp) IN
         /\ fetched' = Append(fetched, LandingUrl)
         /\ landing' = <<resp>>
         /\ CASE r.tag = "Ok" ->
                   /\ story' = r.val
                   /\ builder' = <<NewBuilder(r.val[1])>>
                   /\ pc' = "fetch_cover"
                   /\ UNCHANGED error
              [] r.tag = "Err" ->
                   /\ Fail(r.err[1])
                   /\ UNCHANGED <<story, builder>>
              [] r.tag = "Panic" ->
                   /\ pc' = "panicked"
                   /\ UNCHANGED <<story, builder, error>>
    /\ UNCHANGED <<concurrent, out, stream_vars>>

\* The result of fetch_and_add_cover not looked at: main goes on to the
\* chapters whatever the cover step returned.
FetchAndAddCoverUnchecked ==
    /\ pc = "fetch_cover"
    /\ LET url == story[1].cover
           fmt == cover_format(url)
       IN  \E resp \in CoverResponses :
             LET r == IF fmt.tag = "Err" THEN fmt
                      ELSE fetch_and_add_cover(builder[1], url, resp)
                 b == IF r.tag = "Err" THEN builder[1] ELSE r.val[1]
             IN  /\ fetched' = IF fmt.tag = "Err" THEN fetched
                                ELSE Append(fetched, CoverUrl)
                 /\ builder' = <<[b EXCEPT !.inline_toc = TRUE]>>
                 /\ pc' = "chapters"
                 /\ unit' = [i \in ChapterIndices |-> "queued"]
                 /\ response' = [i \in ChapterIndices |-> <<>>]
                 /\ woken' = TRUE
                 /\ UNCHANGED error
    /\ UNCHANGED <<concurrent, landing, story, out, next_in, next_outgoing_index,
                   delivered, completed>>

\* fetch_and_add_cover(&mut builder, &story.cover).await?; builder.inline_toc();
FetchAndAddCover ==
    /\ pc = "fetch_cover"
    /\ LET url == story[1].cover
           fmt == cover_format(url)
       IN  IF fmt.tag = "Err"
             THEN /\ Fail(fmt.err[1])
                  /\ UNCHANGED <<builder, fetched, unit, response, woken>>
             ELSE \E resp \in CoverResponses :
                    LET r == fetch_and_add_cover(builder[1], url, resp) IN
                    /\ fetched' = Append(fetched, CoverUrl)
                    /\ IF r.tag = "Err"
                         THEN /\ Fail(r.err[1])
                              /\ UNCHANGED <<builder, unit, response, woken>>
                         ELSE /\ builder' = <<[r.val[1] EXCEPT !.inline_toc = TRUE]>>
                              /\ pc' = "chapters"
                              /\ unit' = [i \in ChapterIndices |-> "queued"]
                              /\ response' = [i \in ChapterIndices |-> <<>>]
                              /\ woken' = TRUE
                              /\ UNCHANGED error
    /\ UNCHANGED <<concurrent, landing, story, out, next_in, next_outgoing_index,
                   delivered, completed>>

\* ------------------------------------------------------ the chapter stream
\* FuturesUnordered::len in the place of FuturesOrdered::len: the outputs
\* that wait are not counted.
QueueLenRunningOnly(u) == Cardinality({ i \in DOMAIN u : u[i] \in {"pushed", "running"} })

\* FuturesOrdered::len: the futures in progress and the outputs that wait.
QueueLen(u) == Cardinality({ i \in DOMAIN u : u[i] \in {"pushed", "running", "output"} })

\* The first loop without its limit: every remaining future is taken.
FillToUnbounded(u, n, max) == NumChapters

\* Buffered::poll_next, first loop: while in_progress_queue.len() < max, take
\* the next future from the iterator.  The new value of next_in.
FillTo(u, n, max) ==
    IF QueueLen(u) < max THEN Min(NumChapters, n + (max - QueueLen(u))) ELSE n

\* The link not joined with the base URL: the content is that of the base
\* page.
fetch_chapter_contentOfBase(link, resp) ==
    IF resp.transport THEN Err(NetworkError(ChapterUrl(link)))
    ELSE IF ~resp.content THEN Err(ExtractionError("chapter content"))
    ELSE Ok([of |-> LandingUrl, status |-> resp.status])

\* The unit of work of chapter i, from its response on (the hrefs of the
\* pages tried join with the base URL):
\* fetch_chapter_content(&chapter.link), then Ok((i, chapter, content)).
\* The status of the response is never looked at.
fetch_chapter_content(link, resp) ==
    IF resp.transport THEN Err(NetworkError(ChapterUrl(link)))
    ELSE IF ~resp.content THEN Err(ExtractionError("chapter content"))
    ELSE Ok([of |-> ChapterUrl(link), status |-> resp.status])

\* The chapter's page put in front of the entries already there.
add_chapterInFront(b, nr, chapter, content) ==
    [b EXCEPT !.content = <<[file |-> "chapter.xhtml", nr |-> <<nr>>,
                             title |-> chapter.name, reftype |-> "Text",
                             xhtml |-> [title |-> chapter.name,
                                        body |-> content]]>> \o @]

\* add_chapter: the builder with the chapter's page appended.  The builder
\* writes into the in-memory archive of ZipLibrary, and the entry names
\* chapter_{nr}.xhtml are distinct, so add_content returns Ok.
add_chapter(b, nr, chapter, content) ==
    [b EXCEPT !.content = Append(@, [file |-> "chapter.xhtml", nr |-> <<nr>>,
                                     title |-> chapter.name, reftype |-> "Text",
                                     xhtml |-> [title |-> chapter.name,
                                                body |-> content]])]

\* The queue of buffer_unordered: any output that is there is yielded, the
\* lowest first.
NextOutputUnordered(u, head) ==
    LET outs == { i \in DOMAIN u : u[i] = "output" }
    IN  IF outs = {} THEN <<>> ELSE <<CHOOSE i \in outs : \A j \in outs : i <= j>>

\* FuturesOrdered::poll_next: the index whose output the queue yields, <<i>>,
\* or <<>> when the output with index next_outgoing_index is not there yet.
\* Outputs of higher indices wait in the queue.
NextOutput(u, head) ==
    IF head < NumChapters /\ u[head] = "output" THEN <<head>> ELSE <<>>

\* The end reported only after some future was taken from the iterator.
StreamEndedAfterItem(u, n, max) ==
    QueueLen(u) = 0 /\ n = NumChapters /\ QueueLen(u) < max /\ n > 0

\* Buffered::poll_next, its end: the queue is empty and the fused iterator
\* has returned None.  The iterator is polled only while the queue is
\* shorter than max.
StreamEnded(u, n, max) == QueueLen(u) = 0 /\ n = NumChapters /\ QueueLen(u) < max

\* The futures taken from the end of the chapter list.
TakeFromIterBackwards(u, n, n2) ==
    [i \in DOMAIN u |->
        IF NumChapters - n2 <= i /\ i < NumChapters - n THEN "pushed" ELSE u[i]]

\* Buffered::poll_next, first loop: the futures the iterator hands out when
\* next_in goes from n to n2 are those of the chapters n .. n2-1, which are
\* pushed into the queue.
TakeFromIter(u, n, n2) ==
    [i \in DOMAIN u |-> IF n <= i /\ i < n2 THEN "pushed" ELSE u[i]]

\* for_each in the place of try_for_each: the error is noted, the item is
\* skipped and the loop goes on.
StreamErrorSkipped(e, u) ==
    /\ error' = <<e>>
    /\ pc' = pc
    /\ unit' = [u EXCEPT ![next_outgoing_index] = "delivered"]
    /\ next_outgoing_index' = next_outgoing_index + 1
    /\ woken' = TRUE
    /\ UNCHANGED <<builder, delivered, fetched>>

\* The stream yields Err(e): try_for_each returns the error, `?` returns it
\* from main and the stream is dropped with the futures still in its queue.
StreamError(e, u) ==
    /\ Fail(e)
    /\ unit' = [i \in DOMAIN u |->
                  IF u[i] \in {"pushed", "running", "output"}
                    THEN "dropped" ELSE u[i]]
    /\ woken' = FALSE
    /\ UNCHANGED <<builder, delivered, fetched, next_outgoing_index>>

\* One turn of try_for_each's loop: Buffered::poll_next, then what
\* try_for_each does with the answer.
PollNext ==
    /\ pc = "chapters"
    /\ woken
    /\ LET n2 == FillTo(unit, next_in, concurrent)
           u1 == TakeFromIter(unit, next_in, n2)
           yield == NextOutput(u1, next_outgoing_index)
       IN  /\ next_in' = n2
           /\ IF yield # <<>>
                THEN \* the ordered queue yields the output of a chapter
                  LET head == yield[1]
                      r == fetch_chapter_content(Chapter(head).link, response[head][1])
                  IN  IF r.tag = "Ok"
                        THEN /\ builder' = <<add_chapter(builder[1], head,
                                                         Chapter(head), r.val[1])>>
                             /\ delivered' = Append(delivered,
                                    [nr |-> head, chapter |-> Chapter(head),
                                     content |-> r.val[1]])
                             /\ unit' = [u1 EXCEPT ![head] = "delivered"]
                             /\ next_outgoing_index' = next_outgoing_index + 1
                             /\ UNCHANGED <<pc, error, fetched, woken>>
                        ELSE StreamError(r.err[1], u1)
                ELSE IF StreamEnded(u1, n2, concurrent)
                THEN \* the queue is empty and the iterator is done: Ready(None)
                     /\ pc' = "create"
                     /\ woken' = FALSE
                     /\ unit' = u1
                     /\ UNCHANGED <<builder, delivered, fetched, error,
                                    next_outgoing_index>>
                ELSE \* the futures pushed since the last poll are polled and
                     \* issue their requests; nothing to yield: Pending
                     /\ unit' = [i \in DOMAIN u1 |->
                                   IF u1[i] = "pushed" THEN "running" ELSE u1[i]]
                     /\ fetched' = fetched \o PushedLinks(u1)
                     /\ woken' = FALSE
                     /\ UNCHANGED <<pc, builder, delivered, error,
                                    next_outgoing_index>>
    /\ UNCHANGED <<concurrent, landing, story, out, response, completed>>

\* The response to the request of chapter i arrives and wakes main's task.
ChapterResponse(i) ==
    /\ pc = "chapters"
    /\ unit[i] = "running"
    /\ \E resp \in ChapterResponses :
         response' = [response EXCEPT ![i] = <<resp>>]
    /\ unit' = [unit EXCEPT ![i] = "output"]
    /\ woken' = TRUE
    /\ completed' = Append(completed, i)
    /\ UNCHANGED <<pc, concurrent, landing, story, builder, fetched, error, out,
                   next_in, next_outgoing_index, delivered>>

\* let mut out = File::create(args.out)?;
CreateOut ==
    /\ pc = "create"
    /\ \E ok \in BOOLEAN :
         IF ok THEN /\ out' = "empty"
                    /\ pc' = "generate"
                    /\ UNCHANGED error
               ELSE /\ Fail(IoError)
                    /\ UNCHANGED out
    /\ UNCHANGED <<concurrent, landing, story, builder, fetched, stream_vars>>

\* builder.generate(&mut out)?; Ok(())
Generate ==
    /\ pc = "generate"
    /\ \E ok \in BOOLEAN :
         IF ok THEN /\ out' = "complete"
                    /\ pc' = "done"
                    /\ UNCHANGED error
               ELSE /\ Fail(IoError)
                    /\ out' \in {"empty", "partial"}
    /\ UNCHANGED <<concurrent, landing, story, builder, fetched, stream_vars>>

Next ==
    \/ FetchStory
    \/ FetchAndAddCover
    \/ PollNext
    \/ \E i \in DOMAIN unit : ChapterResponse(i)
    \/ CreateOut
    \/ Generate

Spec == Init /\ [][Next]_vars

\* Fair scheduling: main's task runs whenever it can (the runtime polls a
\* woken task), and every request that was issued is answered in the end.
FairSpec ==
    /\ Spec
    /\ WF_vars(FetchStory)
    /\ WF_vars(FetchAndAddCover)
    /\ WF_vars(PollNext)
    /\ \A i \in 0..(MaxChapters - 1) : WF_vars(i \in DOMAIN unit /\ ChapterResponse(i))
    /\ WF_vars(CreateOut)
    /\ WF_vars(Generate)

\* ================================================================== claims
\* The chapters whose response has arrived, and what their units return.
Responded == { i \in DOMAIN response : response[i] # <<>> }
UnitResult(i) == fetch_chapter_content(Chapter(i).link, response[i][1])
\* The units that returned Err, and the lowest of them.
FailedUnits == { i \in Responded : UnitResult(i).tag = "Err" }
LowestFailed == CHOOSE k \in FailedUnits : \A j \in FailedUnits : k <= j
\* The units admitted and not completed: pushed into the queue or running.
InFlight == { i \in DOMAIN unit : unit[i] \in {"pushed", "running"} }
\* The indices handed to add_chapter, in order.
DeliveredIndices == [k \in 1..Len(delivered) |-> delivered[k].nr]
\* 0, 1, ..., n-1
Upto(n) == [k \in 1..n |-> k - 1]
\* try_for_each returned Ok(()): main is at or past File::create.
PipelineSucceeded ==
    \/ pc \in {"create", "generate", "done"}
    \/ pc = "failed" /\ error[1].kind = "IoError"
\* try_for_each returned the error of a chapter unit.
PipelineFailed ==
    /\ pc = "failed"
    /\ \/ error[1].field = "chapter content"
       \/ error[1].url # <<>> /\ error[1].url[1].what = "chapter"
\* Chapter j's response arrived before chapter i's.
CompletedBefore(j, i) ==
    \E a, b \in 1..Len(completed) : a < b /\ completed[a] = j /\ completed[b] = i

\* C1: whatever the order in which the chapter responses arrive, the indices
\* handed to add_chapter are 0, 1, 2, ... in ascending order without gap or
\* duplicate; when the stream ends successfully all N chapters have been
\* handed over; when every unit succeeds the stream does not fail; and with
\* concurrency >= 1 the stream never rests with nothing left to wake it.
C1_OrderedDelivery ==
    /\ DeliveredIndices = Upto(Len(delivered))
    /\ PipelineSucceeded => Len(delivered) = NumChapters
    /\ PipelineFailed => FailedUnits # {}
    /\ (pc = "chapters" /\ concurrent >= 1) =>
          (woken \/ \E i \in DOMAIN unit : unit[i] = "running")

\* C1 witness: three chapters, concurrency 2, chapter 1 answered before
\* chapter 0, and all three were handed to add_chapter in order.
C1_Witness ==
    /\ pc = "create"
    /\ concurrent = 2
    /\ DeliveredIndices = <<0, 1, 2>>
    /\ CompletedBefore(1, 0)

\* C2: the number of chapter units admitted and not yet completed never
\* exceeds args.concurrent.
C2_BoundedInFlight == Cardinality(InFlight) <= concurrent

\* C2 witness: the window is full (two requests running, concurrency 2)
\* while a third chapter still waits in the iterator.
C2_Witness ==
    /\ pc = "chapters"
    /\ concurrent = 2
    /\ Cardinality({ i \in DOMAIN unit : unit[i] = "running" }) = 2
    /\ next_in < NumChapters

\* The units whose request is issued and not answered.
Running == { i \in DOMAIN unit : unit[i] = "running" }
\* The units admitted and not yet handed to try_for_each's closure.
Undelivered == { i \in DOMAIN unit : unit[i] \in {"pushed", "running", "output"} }
\* The stream rests: main's task waits for a response to wake it.
Resting == pc = "chapters" /\ ~woken

\* C3 as claimed: whenever the stream rests with chapters left in the
\* iterator, args.concurrent units are still running (a completed unit
\* was replaced by the next chapter whatever its index).
C3_AdmitWhenFewerRunning ==
    (Resting /\ next_in < NumChapters) => Cardinality(Running) >= concurrent

\* C3 as amended: whenever the stream rests with chapters left in the
\* iterator, args.concurrent chapters are admitted and not yet delivered
\* (running, or completed and waiting for a lower index): the next chapter
\* is admitted when the lowest undelivered chapter is delivered, not when
\* any unit completes.
C3_AdmitWhenFewerUndelivered ==
    (Resting /\ next_in < NumChapters) => Cardinality(Undelivered) = concurrent

\* C3 witness: concurrency 2, chapter 1 has completed while chapter 0 is
\* still running, chapter 2 waits in the iterator and is not admitted.
C3_Witness ==
    /\ Resting
    /\ concurrent = 2
    /\ NumChapters = 3
    /\ unit[0] = "running"
    /\ unit[1] = "output"
    /\ unit[2] = "queued"

\* The chapter indices an error value identifies: those whose link is the
\* URL the error carries.
IdentifiedIndices(e) ==
    IF e.url # <<>> /\ e.url[1].what = "chapter"
      THEN { i \in ChapterIndices : Chapter(i).link = e.url[1].id }
      ELSE {}

\* The stream's error is the error of the lowest-index failed unit, also
\* when a failed unit of a higher index completed first.
FirstByIndex ==
    PipelineFailed =>
        /\ FailedUnits # {}
        /\ error[1] = UnitResult(LowestFailed).err[1]
        /\ LowestFailed = next_outgoing_index

\* C4: when chapter units fail, main's error is the error of the failed
\* unit with the lowest index k, and the error identifies index k.
C4_FirstByIndexIdentified ==
    (pc = "failed" /\ FailedUnits # {}) =>
        /\ error[1] = UnitResult(LowestFailed).err[1]
        /\ IdentifiedIndices(error[1]) = {LowestFailed}

\* C5: no chapter at or above a failed index is ever handed to add_chapter,
\* and when the stream fails with lowest failed index k exactly the
\* chapters 0..k-1 have been handed over.
C5_NothingFromFailedIndexOn ==
    /\ \A k \in 1..Len(delivered) :
          \A j \in FailedUnits : delivered[k].nr < j
    /\ (pc = "failed" /\ FailedUnits # {}) => DeliveredIndices = Upto(LowestFailed)

\* C5 witness: chapter 2 completed successfully before chapter 1 failed;
\* the run failed with chapter 0 alone handed over.
C5_Witness ==
    /\ pc = "failed"
    /\ FailedUnits = {1}
    /\ 2 \in Responded
    /\ UnitResult(2).tag = "Ok"
    /\ CompletedBefore(2, 1)
    /\ DeliveredIndices = <<0>>

\* C6: a run with args.concurrent = 0 issues no request and ends at once
\* with a ConfigError.
C6_ZeroConcurrencyFailsFast ==
    concurrent = 0 =>
        /\ fetched = <<>>
        /\ pc \in {"fetch_story", "failed"}
        /\ pc = "failed" => error[1].kind = "ConfigError"

\* The chapter requests issued so far.
ChapterFetches == { k \in 1..Len(fetched) : fetched[k].what = "chapter" }

\* C7: with no chapters and concurrency >= 1 the stream ends successfully
\* at its first poll: nothing is handed to add_chapter, no chapter request
\* is issued, the stream neither rests nor fails.
C7_EmptyChapterList ==
    (story # <<>> /\ NumChapters = 0 /\ concurrent >= 1) =>
        /\ delivered = <<>>
        /\ ChapterFetches = {}
        /\ ~PipelineFailed
        /\ pc = "chapters" => woken

\* C7 witness: the stream of an empty chapter list has ended, main is at
\* File::create, and only the landing page and the cover were requested.
C7_Witness ==
    /\ pc = "create"
    /\ NumChapters = 0
    /\ concurrent >= 1
    /\ fetched = <<LandingUrl, CoverUrl>>
    /\ delivered = <<>>

\* C8: when the run ends in an error no file exists at args.out.
C8_NoFileOnError ==
    pc \in {"failed", "panicked"} => out = "absent"

\* The required items a landing page lacks, by the name fetch_story's
\* messages give them.
MissingItems(doc) ==
    { f \in Fields : doc.meta[f] # "present" }
    \cup (IF ~doc.table THEN {"chapters"} ELSE {})
    \cup (IF doc.table /\ \E k \in 1..Len(Flatten(doc.rows)) :
                              \/ Flatten(doc.rows)[k].href = <<>>
                              \/ Flatten(doc.rows)[k].text = <<>>
            THEN {"chapter link or name"} ELSE {})

\* C9: a response with a non-success status fails the run with a
\* NetworkError; its body is never parsed as the landing page (stated for
\* bodies that lack no required item), never added as the cover image,
\* never handed to add_chapter as chapter content.
C9_NonSuccessIsNetworkError ==
    /\ (/\ landing # <<>>
        /\ ~landing[1].transport
        /\ ~IsSuccess(landing[1].status)
        /\ MissingItems(landing[1].body) = {}) =>
          /\ pc = "failed"
          /\ error[1].kind = "NetworkError"
          /\ story = <<>>
    /\ builder # <<>> =>
          \A k \in 1..Len(builder[1].cover_image) :
              IsSuccess(builder[1].cover_image[k].data.status)
    /\ \A k \in 1..Len(delivered) : IsSuccess(delivered[k].content.status)

\* C10: fetch_story on a landing page that lacks a required item returns
\* an ExtractionError naming a missing item; it neither panics nor returns
\* a Story.
C10_MissingItemIsExtractionError ==
    (landing # <<>> /\ ~landing[1].transport /\ MissingItems(landing[1].body) # {}) =>
        /\ pc = "failed"
        /\ story = <<>>
        /\ error[1].kind = "ExtractionError"
        /\ error[1].field \in MissingItems(landing[1].body)

\* The cover step has run: main is past fetch_and_add_cover or failed in it.
CoverStepOver == story # <<>> /\ pc # "fetch_cover"

\* C11: a cover whose format (the extension of its URL, from which the code
\* takes the MIME type) is not jpg, jpeg or png makes the cover step fail
\* with the unsupported-format error, and the builder is left as it was
\* before the step: no cover image and no cover content entry.
C11_UnsupportedCoverFormat ==
    (/\ CoverStepOver
     /\ story[1].cover.parses
     /\ Ext(story[1].cover) \notin {"jpg", "jpeg", "png"}) =>
        /\ pc = "failed"
        /\ error = <<UnsupportedFormatError>>
        /\ builder = <<NewBuilder(story[1])>>
        /\ builder[1].cover_image = <<>>
        /\ builder[1].content = <<>>

\* C11 witness: the cover URL ends in .gif (here cover.png.gif) and the run
\* has failed in the cover step.
C11_Witness ==
    /\ pc = "failed"
    /\ story # <<>>
    /\ story[1].cover.pieces = <<"cover", "png", "gif">>
    /\ error = <<UnsupportedFormatError>>

\* C12: story resolution yields exactly one Chapter per row of the chapter
\* table, in row order: for R rows the chapter list has length R and its
\* i-th entry carries the name and link of row i (of the row's first anchor
\* cell, also when the row has more than one).
C12_OneChapterPerRow ==
    story # <<>> =>
        LET rows == landing[1].body.rows
        IN  /\ Len(story[1].chapters) = Len(rows)
            /\ \A i \in 1..Len(rows) :
                   story[1].chapters[i] = ChapterOf(rows[i][1])

\* The content entries of the document, <<>> before the builder exists.
Content == IF builder = <<>> THEN <<>> ELSE builder[1].content
CoverEntries == { k \in 1..Len(Content) : Content[k].reftype = "Cover" }
ChapterEntries == { k \in 1..Len(Content) : Content[k].reftype = "Text" }
\* At most one cover entry, in front of every chapter entry; the chapter
\* entries in ascending index order.
ContentInOrder ==
    /\ Cardinality(CoverEntries) <= 1
    /\ CoverEntries \cup ChapterEntries = 1..Len(Content)
    /\ \A k \in CoverEntries : \A j \in ChapterEntries : k < j
    /\ \A j, k \in ChapterEntries : j < k => Content[j].nr[1] < Content[k].nr[1]
\* A step leaves the entries already added where and as they are.
ContentAppendOnly ==
    /\ builder # <<>> => builder' # <<>>
    /\ Len(Content) <= Len(Content')
    /\ \A k \in 1..Len(Content) : Content'[k] = Content[k]

\* C13: in every reachable state the content entries are at most one cover
\* entry, in front of every chapter entry, followed by the chapter entries in
\* ascending index order; and no step reorders, changes or removes an entry
\* that was already added.
C13_ContentOrder == []ContentInOrder /\ [][ContentAppendOnly]_vars

\* C13 witness: the document of a finished run holds the cover entry and
\* three chapter entries, the chapters having completed out of order.
C13_Witness ==
    /\ pc = "done"
    /\ Len(Content) = 4
    /\ CoverEntries = {1}
    /\ completed # <<0, 1, 2>>

\* How many times the request url was issued.
TimesFetched(url) == Cardinality({ k \in 1..Len(fetched) : fetched[k] = url })

\* C14: no fetch is retried.  The landing page and the cover are requested
\* at most once, each chapter link at most once and only if it is the link
\* of a chapter of the story: at most 1 + 1 + N requests in all, whether the
\* run succeeds or fails.
C14_NoRetry ==
    /\ TimesFetched(LandingUrl) <= 1
    /\ TimesFetched(CoverUrl) <= 1
    /\ \A k \in ChapterFetches :
          /\ TimesFetched(fetched[k]) = 1
          /\ \E i \in ChapterIndices : fetched[k] = ChapterUrl(Chapter(i).link)
    /\ Len(fetched) <= 1 + 1 + NumChapters

\* C14 witness: a run that failed on a chapter after every one of its three
\* chapters had been requested: 1 + 1 + 3 requests, the failed one included.
C14_Witness ==
    /\ PipelineFailed
    /\ NumChapters = 3
    /\ Len(fetched) = 1 + 1 + NumChapters

\* main has returned the error of a chapter unit.
ChapterErrorReturned ==
    /\ error # <<>>
    /\ \/ error[1].field = "chapter content"
       \/ error[1].url # <<>> /\ error[1].url[1].what = "chapter"
\* The chapters taken from the iterator so far.
Admitted == { i \in DOMAIN unit : unit[i] # "queued" }

\* C15: once the stream's first error has been returned to try_for_each, no
\* further chapter unit is admitted: nothing is left in progress, and no
\* later step takes a chapter from the iterator or issues a request.
C15_NoAdmissionAfterFailure ==
    /\ [](ChapterErrorReturned => InFlight = {})
    /\ [][ChapterErrorReturned =>
            (next_in' = next_in /\ Admitted' = Admitted /\ fetched' = fetched)]_vars

\* C15 witness: the run failed on a chapter while chapter 3 was still in the
\* iterator and the unit of chapter 2 had no response yet; chapter 3 was
\* never admitted.
C15_Witness ==
    /\ PipelineFailed
    /\ NumChapters = 4
    /\ unit[2] = "dropped"
    /\ response[2] = <<>>
    /\ unit[3] = "queued"
    /\ next_in = 3

\* The chapter requests issued so far, in the order of their issue.
RECURSIVE ChapterRequests(_)
ChapterRequests(k) ==
    IF k > Len(fetched) THEN <<>>
    ELSE (IF fetched[k].what = "chapter" THEN <<fetched[k]>> ELSE <<>>)
         \o ChapterRequests(k + 1)
\* The chapters whose fetch has been started: their request was issued.
Started == { i \in DOMAIN unit : ChapterUrl(Chapter(i).link) \in
                                   { fetched[k] : k \in 1..Len(fetched) } }

\* C16: chapters are admitted in input order.  In every reachable state the
\* chapters taken from the iterator are 0 .. next_in-1, the chapters whose
\* fetch has been started are a prefix 0 .. m-1 of them, and their requests
\* were issued in index order.  The order of completion is not constrained.
C16_AdmittedInInputOrder ==
    /\ Admitted = 0..(next_in - 1)
    /\ \E m \in 0..next_in :
          /\ Started = 0..(m - 1)
          /\ ChapterRequests(1) = [k \in 1..m |-> ChapterUrl(Chapter(k - 1).link)]

\* C16 witness: four chapters, the first three started in input order, and
\* chapter 2 completed before chapter 1.
C16_Witness ==
    /\ NumChapters = 4
    /\ Started = {0, 1, 2}
    /\ completed = <<0, 2, 1>>

\* C17: every result handed to add_chapter with index i carries the Chapter
\* at position i of the story's list and the content extracted from the
\* response to the request of that chapter's own link, and the page appended
\* for it carries that name and that content: a result is never paired with
\* the name or content of another chapter.
C17_ResultCarriesOwnChapter ==
    \A k \in 1..Len(delivered) :
        LET d == delivered[k]
            i == d.nr
        IN  /\ i \in ChapterIndices
            /\ d.chapter = Chapter(i)
            /\ response[i] # <<>>
            /\ d.content = [of |-> ChapterUrl(Chapter(i).link),
                            status |-> response[i][1].status]
            /\ \E e \in ChapterEntries :
                  /\ Content[e].nr = <<i>>
                  /\ Content[e].title = Chapter(i).name
                  /\ Content[e].xhtml = [title |-> Chapter(i).name, body |-> d.content]

\* C17 witness: three chapters handed over, chapter 1 answered before
\* chapter 0, and the responses of chapters 0 and 1 differ.
C17_Witness ==
    /\ Len(delivered) = 3
    /\ completed = <<1, 0, 2>>
    /\ delivered[1].content.status = 404
    /\ delivered[2].content.status = 200

\* The story is resolved and the cover has been fetched and added.
CoverAdded ==
    /\ story # <<>>
    /\ builder[1].cover_image # <<>>
    /\ CoverEntries = {1}
    /\ Len(fetched) >= 2
    /\ fetched[1] = LandingUrl
    /\ fetched[2] = CoverUrl
\* Every chapter of the story has been appended to the document.
AllChaptersAppended ==
    /\ Len(delivered) = NumChapters
    /\ Cardinality(ChapterEntries) = NumChapters

\* C18: the stages of a run are strictly in sequence.  No chapter is
\* admitted or requested before the story is resolved and the cover fetched
\* and added; the output file is not created, nor main at File::create,
\* before every chapter has been appended; and a run whose story resolution
\* or cover step failed has issued no chapter request.
C18_StagesInSequence ==
    /\ (ChapterFetches # {} \/ Admitted # {} \/ delivered # <<>>) => CoverAdded
    /\ (out # "absent" \/ pc \in {"create", "generate", "done"}) =>
          (CoverAdded /\ AllChaptersAppended)
    /\ (pc \in {"failed", "panicked"} /\ ~CoverAdded) =>
          (ChapterFetches = {} /\ Admitted = {})

\* C18 witness: main has created the output file after two chapters were
\* requested and appended, four requests in all.
C18_Witness ==
    /\ pc = "generate"
    /\ out = "empty"
    /\ NumChapters = 2
    /\ Len(fetched) = 4
    /\ AllChaptersAppended

\* The request of chapter k was issued and has not been answered.
Hung(k) == k \in Started /\ response[k] = <<>>
\* While chapter k hangs: nothing of index k or higher has been handed to
\* add_chapter, and no chapter of index k + concurrency or higher has been
\* taken from the iterator.
BlockedBehind(k) ==
    /\ \A d \in 1..Len(delivered) : delivered[d].nr < k
    /\ next_in <= k + concurrent
\* The run is over: main has returned.
Terminated == pc \in {"done", "failed", "panicked"}

\* C19 as stated: while the request of chapter k has no answer, nothing of
\* index >= k is delivered, nothing of index >= k + concurrency is admitted,
\* and the run has not terminated.
C19_HungFetchNeverTerminates ==
    \A k \in DOMAIN unit : Hung(k) => (BlockedBehind(k) /\ ~Terminated)

\* C19 amended: while the request of chapter k has no answer, nothing of
\* index >= k is delivered (outputs of higher indices wait in the queue),
\* nothing of index >= k + concurrency is admitted, and the run has not
\* terminated unless it failed on a chapter of a lower index; and under fair
\* scheduling with concurrency >= 1, where every request issued is answered,
\* a run that reached the chapter stream terminates, with all N chapters
\* delivered or with the error of a chapter.
C19_HungFetchBlocks ==
    /\ [](\A k \in DOMAIN unit : Hung(k) =>
            /\ BlockedBehind(k)
            /\ \/ pc = "chapters"
               \/ PipelineFailed /\ FailedUnits # {} /\ LowestFailed < k)
    /\ (pc = "chapters" /\ concurrent >= 1) ~>
          (Terminated /\ (Len(delivered) = NumChapters \/ PipelineFailed))

\* C19 witness: concurrency 2, four chapters; the request of chapter 0 has
\* no answer while the output of chapter 1 waits in the queue, nothing was
\* delivered and chapters 2 and 3 are still in the iterator.
C19_Witness ==
    /\ Resting
    /\ concurrent = 2
    /\ NumChapters = 4
    /\ Hung(0)
    /\ unit[1] = "output"
    /\ delivered = <<>>
    /\ next_in = 2

\* The outputs that wait in the queue behind a lower index.
BufferedOutputs ==
    { i \in DOMAIN unit : unit[i] = "output" /\ i > next_outgoing_index }

\* C20: in every reachable state the chapters admitted and not yet delivered
\* (running, or completed and waiting in the queue) are at most concurrency
\* many; hence at most concurrency - 1 completed results wait behind a lower
\* index (none at concurrency 0, where nothing is admitted), and every
\* admitted index is below next_outgoing_index + concurrency.
C20_WindowBound ==
    /\ Cardinality(Undelivered) <= concurrent
    /\ Cardinality(BufferedOutputs) <= IF concurrent = 0 THEN 0 ELSE concurrent - 1
    /\ \A i \in Admitted : i < next_outgoing_index + concurrent

\* C20 witness: concurrency 2, chapter 0 delivered, chapter 1 running and
\* the output of chapter 2 waiting behind it: the window is full and
\* chapter 3 stays in the iterator.
C20_Witness ==
    /\ concurrent = 2
    /\ NumChapters = 4
    /\ next_outgoing_index = 1
    /\ unit[1] = "running"
    /\ unit[2] = "output"
    /\ unit[3] = "queued"
    /\ Cardinality(Undelivered) = concurrent
    /\ Cardinality(BufferedOutputs) = concurrent - 1

====
